---- MODULE Spec2Model ----
(***************************************************************************)
(* Model of src/src/frameProcessor.cpp: the capture processor              *)
(* (CalibProcessor), its stability gate over mTemplateLocations, the       *)
(* conversion of a detection into a calibration sample (saveFrameData)     *)
(* and the shared calibrationData it appends to.                           *)
(*                                                                         *)
(* An image point is a cv::Point2f: two floats.  A point with whole pixel  *)
(* coordinates is the pair <<x, y>>; a point with a fractional coordinate  *)
(* is <<nx, ny, d>> in lowest terms with d > 1 a power of two and stands   *)
(* for (nx/d, ny/d).  The arithmetic the code does on image points is      *)
(* float arithmetic: the sums and the quotient of the ChArUco centroid and *)
(* the difference of two anchors are rounded to a float (RoundFloat), and  *)
(* the norm of that difference is taken in double.                         *)
(*                                                                         *)
(* Object-space lengths are given in units of 1/20 (16.3 is 326, 295 is    *)
(* 5900).  The object points of the chessboard and of the circle grid are  *)
(* single products n * 16.3f and are named by n * 326; the object points   *)
(* of the double grid are sums and differences of such floats, each        *)
(* rounded, and are the floats the code computes, as fractions.            *)
(*                                                                         *)
(* A processFrame call that captures is two steps: after saveFrameData it  *)
(* shows the frame and waits in cv::waitKey(300), and only when that       *)
(* returns does it count the capture and clear the history; pc is where    *)
(* the call stands.  No code of src/ registers a HighGUI callback, and the *)
(* driver is inside the call, so no operation of the processors starts     *)
(* during the wait; the state of the wait is a state of the model.         *)
(*                                                                         *)
(* The OpenCV detectors are external: one processFrame call receives the   *)
(* outcome of the detector calls it makes as the record det.               *)
(***************************************************************************)
EXTENDS Integers, Sequences, FiniteSets

VARIABLES
    mBoardType,             \* TemplateType given to the constructor
    mBoardSize,             \* cv::Size given to the constructor: <<width, height>>
    mCapuredFrames,         \* captured-frame count
    mNeededFramesNum,       \* target count
    mTemplateLocations,     \* AnchorHistory, most recent first
    mCurrentImagePoints,    \* image-point buffer of the current frame
    mCurrentCharucoCorners, \* charuco corners of the latest successful detection
    mCurrentCharucoIds,     \* charuco ids of the latest successful detection
    pc,                     \* where processFrame stands: "idle" (not in a call) or
                            \*   "waitKey" (in cv::waitKey(300) of a capturing call)
    imagePoints,            \* mCalibdata->imagePoints
    objectPoints,           \* mCalibdata->objectPoints
    allCharucoCorners,      \* mCalibdata->allCharucoCorners
    allCharucoIds,          \* mCalibdata->allCharucoIds
    cameraMatrix,           \* mCalibdata->cameraMatrix.size[0]  (0: absent)
    distCoeffs,             \* mCalibdata->distCoeffs.size[0]    (0: absent)
    totalAvgErr,            \* mCalibdata->totalAvgErr
    lastCall,               \* observer: the latest call made on the processor
    lastDet,                \* observer: the detector outcome of the latest processFrame
    isTemplateFound,        \* observer: isTemplateFound of the latest processFrame
    triggered,              \* observer: the latest processFrame captured
    recent,                 \* observer: anchors detected since the history was last cleared
    steady,                 \* observer: length of the all-detected, all-close window since the history was empty
    curRun,                 \* observer: current run of detection-present frames, or
                            \*   delayBetweenCaptures once some run was that long
    nFound,                 \* observer: detection-present frames since construction
    sinceCapture,           \* observer: detection-present frames since the latest capture
    totalTriggers,          \* observer: processFrame calls that captured, since construction
    trail,                  \* observer: anchors of the current run of detection-present frames
    shown,                  \* observer: what the latest preview processFrame returned
    held                    \* environment: the pose the board is held in for good (<<>>: none)

progVars == <<mBoardType, mBoardSize, mCapuredFrames, mNeededFramesNum,
              mTemplateLocations, mCurrentImagePoints, mCurrentCharucoCorners,
              mCurrentCharucoIds, pc>>
dataVars == <<imagePoints, objectPoints, allCharucoCorners, allCharucoIds>>
calibVars == <<cameraMatrix, distCoeffs, totalAvgErr>>
obsVars == <<lastCall, lastDet, isTemplateFound, triggered, recent, steady, curRun, nFound,
             sinceCapture, totalTriggers, trail, shown, held>>
auxVars == <<trail, shown, held>>
vars == <<progVars, dataVars, calibVars, obsVars>>

(***************************************************************************)
(* Program constants.                                                      *)
(***************************************************************************)
IMAGE_WIDTH == 1280
IMAGE_HEIGHT == 960
delayBetweenCaptures == 30
\* squareSize = 16.3f and acircleGrid2Distance = 295.f, in units of 1/20
squareSize == 326
acircleGrid2Distance == 5900

TemplateTypes == {"Chessboard", "chAruco", "AcirclesGrid", "DoubleAcirclesGrid"}

(***************************************************************************)
(* Bounds of the model.                                                    *)
(***************************************************************************)
\* samples the dataset may hold
MaxSamples == 2
\* largest target count configured
MaxTarget == 3
\* detections a board pose is held for before the board moves to another pose
MinHold == 24

\* board poses: the anchor the detector reports for each.
\*   PoseA lies within the movement threshold of the origin (distance 14.1);
\*   PoseB is exactly 80 from PoseA and 94.0 from the origin;
\*   PoseC is 6.3 from PoseB, 86.0 from PoseA and 100 from the origin.
\* The anchor of a ChArUco board in a pose lies half a pixel to the right of
\* these, which leaves the distances between poses as they are.
PoseA == <<10, 10>>
PoseB == <<58, 74>>
PoseC == <<60, 80>>
Anchors == {PoseA, PoseB, PoseC}
\* the poses at which only the white sub-grid of a double grid is found
HalfPoses == {PoseB}
BoardSizes == {<<2, 2>>}

(***************************************************************************)
(* Helpers: std::vector and cv::Point2f operations.                        *)
(***************************************************************************)
ZeroPoint == <<0, 0>>

\* mutant: the anchor is pushed at the back
InsertAtEnd(v, p) == v \o <<p>>

\* v.insert(v.begin(), p)
InsertFront(v, p) == <<p>> \o v

\* v.insert(v.end(), w.begin(), w.end())
InsertEnd(v, w) == v \o w

\* v.pop_back()
PopBack(v) == SubSeq(v, 1, Len(v) - 1)

\* v.clear(); v.resize(n): n value-initialised points
Resized(n) == [i \in 1..n |-> ZeroPoint]

\* the denominator of a point's coordinates
Den(p) == IF Len(p) = 3 THEN p[3] ELSE 1

Abs(n) == IF n < 0 THEN 0 - n ELSE n

RECURSIVE GCD(_, _)
GCD(a, b) == IF b = 0 THEN a ELSE GCD(b, a % b)

\* the fraction n/d in lowest terms: <<numerator, denominator>>
Frac(n, d) == LET g == GCD(Abs(n), d) IN <<n \div g, d \div g>>

RECURSIVE IsPowerOfTwo(_)
IsPowerOfTwo(d) ==
    IF d = 1 THEN TRUE
    ELSE IF d < 1 \/ d % 2 = 1 THEN FALSE
    ELSE IsPowerOfTwo(d \div 2)

\* <<a', d', k>> with a'/d' = (a/d) * 2^k and 2^23 <= a'/d' < 2^24: the
\* value scaled so that its integer part has the 24 bits of a float's
\* significand
RECURSIVE ScaleToMantissa(_, _, _)
ScaleToMantissa(a, d, k) ==
    IF a \div d < 2^23
    THEN IF d % 2 = 0 THEN ScaleToMantissa(a, d \div 2, k + 1)
                      ELSE ScaleToMantissa(2 * a, d, k + 1)
    ELSE IF a \div d >= 2^24
         THEN ScaleToMantissa(a, 2 * d, k - 1)
         ELSE <<a, d, k>>

\* a/d rounded to an integer, a tie going to the even one
RoundHalfEven(a, d) ==
    LET q == a \div d
        r == a % d
    IN  IF 2 * r > d \/ (2 * r = d /\ q % 2 = 1) THEN q + 1 ELSE q

\* the float nearest to n/d (d > 0), as a fraction in lowest terms: what a
\* float operation stores of its exact result (IEEE 754 binary32, round to
\* nearest, ties to even; the exponent is taken to stay in the normal
\* range, which pixel coordinates do).  A fraction of fewer than 24 bits
\* over a power of two is a float already.
RoundFloat(n, d) ==
    IF n = 0 THEN <<0, 1>>
    ELSE IF Abs(n) < 2^24 /\ IsPowerOfTwo(d) THEN Frac(n, d)
    ELSE LET s == ScaleToMantissa(Abs(n), d, 0)
             m == RoundHalfEven(s[1], s[2])
             sm == IF n < 0 THEN 0 - m ELSE m
         IN  IF s[3] >= 0 THEN Frac(sm, 2^(s[3]))
                          ELSE <<sm * 2^(0 - s[3]), 1>>

\* float x + float y and float x - float y; x and y are floats, so that the
\* larger of their denominators is a multiple of the other
FloatAdd(x, y) ==
    LET d == IF x[2] > y[2] THEN x[2] ELSE y[2]
    IN  RoundFloat(x[1] * (d \div x[2]) + y[1] * (d \div y[2]), d)

FloatSub(x, y) ==
    LET d == IF x[2] > y[2] THEN x[2] ELSE y[2]
    IN  RoundFloat(x[1] * (d \div x[2]) - y[1] * (d \div y[2]), d)

\* float x / int n: n is converted to float and the quotient is rounded
FloatDiv(x, n) == RoundFloat(x[1], x[2] * n)

\* coordinate i of the point p, as a float
Coord(p, i) == Frac(p[i], Den(p))

\* cv::Point2f(x, y) of two floats
Point2f(x, y) ==
    LET d == IF x[2] > y[2] THEN x[2] ELSE y[2]
    IN  IF d = 1 THEN <<x[1], y[1]>>
        ELSE <<x[1] * (d \div x[2]), y[1] * (d \div y[2]), d>>

\* the point has whole coordinates of less than 23 bits
WholeSmall(p) ==
    Len(p) = 2 /\ Abs(p[1]) < 2^23 /\ Abs(p[2]) < 2^23

\* p - q of two cv::Point2f: each coordinate is subtracted in float.  The
\* difference of two whole numbers of less than 23 bits is a whole number of
\* less than 24 bits, a float, and is not rounded.
Diff(p, q) ==
    IF WholeSmall(p) /\ WholeSmall(q)
    THEN <<p[1] - q[1], p[2] - q[2]>>
    ELSE Point2f(FloatSub(Coord(p, 1), Coord(q, 1)),
                 FloatSub(Coord(p, 2), Coord(q, 2)))

\* cv::norm(p - q), squared and multiplied by Den(Diff(p, q))^2: cv::norm of
\* a Point2f converts the coordinates to double, and the square of a float
\* is exact in double
NormSq(p, q) ==
    LET v == Diff(p, q)
    IN  v[1] * v[1] + v[2] * v[2]

\* mutant: an offset equal to the threshold passes
WithinOffsetInclusive(p, q) ==
    NormSq(p, q) * 20 * 20 <=
        (IMAGE_HEIGHT * IMAGE_HEIGHT + IMAGE_WIDTH * IMAGE_WIDTH)
            * Den(Diff(p, q)) * Den(Diff(p, q))

\* cv::norm(p - q) < maxTemplateOffset, where
\* maxTemplateOffset = sqrt(IMAGE_HEIGHT*IMAGE_HEIGHT + IMAGE_WIDTH*IMAGE_WIDTH) / 20.0
\* is the double 80.  cv::norm is sqrt(x*x + y*y) in double over the float
\* difference (x, y).  Both sides are non-negative, so the comparison is
\* that of the squares wherever double holds the sum of the squares exactly
\* next to the threshold: for a difference whose denominator is below 2^20
\* the sum is a multiple of 2^-38, and the doubles next to 6400 are 2^-40
\* apart.  For a finer difference the sum is rounded to a double s, and
\* sqrt(s) rounds to less than 80 exactly when s <= 6400 - 2^-39, which is
\* when the exact sum is at most 6400 - 3 * 2^-41.  a and b are the two
\* entries and v is their float difference.
WithinOffset(p, q) ==
    LET t == IMAGE_HEIGHT * IMAGE_HEIGHT + IMAGE_WIDTH * IMAGE_WIDTH
    IN  \E a \in {p}, b \in {q} : \E v \in {Diff(a, b)} :
            IF Den(v) < 2^20
            THEN (v[1] * v[1] + v[2] * v[2]) * 20 * 20 < t * Den(v) * Den(v)
            ELSE (v[1] * v[1] + v[2] * v[2]) * 20 * 20 * 2^41
                     <= (t * 2^41 - 3 * 20 * 20) * Den(v) * Den(v)

\* centerX += at<float>(i, 0) for i = 0, 1, ...: the floats are added one
\* by one to a float that starts at 0, each sum rounded
RECURSIVE SumFrom(_, _, _)
SumFrom(acc, c, i) ==
    IF c = <<>> THEN acc
    ELSE SumFrom(FloatAdd(acc, Coord(c[1], i)), Tail(c), i)

SumX(c) == SumFrom(<<0, 1>>, c, 1)
SumY(c) == SumFrom(<<0, 1>>, c, 2)

\* cv::Point2f(centerX, centerY) of detectAndParseChAruco: the float sums
\* of the corners' coordinates, each divided in float by the number of
\* corners
Centroid(c) == Point2f(FloatDiv(SumX(c), Len(c)), FloatDiv(SumY(c), Len(c)))

(***************************************************************************)
(* Detector outcomes.  det is what the detector calls of one processFrame  *)
(* return and write:                                                       *)
(*   found, points    the first grid detection (findChessboardCorners, or  *)
(*                    findCirclesGrid on the frame: the white sub-grid)    *)
(*                    and what it wrote into mCurrentImagePoints; for a    *)
(*                    chessboard the points are those left by cornerSubPix *)
(*   bFound, bPoints  findCirclesGrid on the inverted frame (black grid)   *)
(*   corners, ids     interpolateCornersCharuco's currentCharucoCorners    *)
(*                    and currentCharucoIds (empty when no marker is seen) *)
(* A detector that returns false may leave its output array empty or hold  *)
(* the part of the pattern it did find.                                    *)
(***************************************************************************)
GridAt(a, size) ==
    [k \in 1..(size[1] * size[2]) |->
        <<a[1] + 20 * ((k - 1) % size[1]), a[2] + 20 * ((k - 1) \div size[1])>>]

BlackGridAt(a, size) == GridAt(<<a[1] + 200, a[2]>>, size)

\* two corners whose centroid is (a[1] + 1/2, a[2])
CornersAt(a) == << <<a[1] - 10, a[2] - 10>>, <<a[1] + 11, a[2] + 10>> >>

PartialPoints == << <<7, 7>> >>
FailOutputs == {<<>>, PartialPoints}

NoDet == [found |-> FALSE, points |-> <<>>, bFound |-> FALSE, bPoints |-> <<>>,
          corners |-> <<>>, ids |-> <<>>]

Detections(type, size) ==
    CASE type \in {"Chessboard", "AcirclesGrid"} ->
            {[NoDet EXCEPT !.found = TRUE, !.points = GridAt(a, size)] : a \in Anchors}
            \cup {[NoDet EXCEPT !.points = p] : p \in FailOutputs}
      [] type = "DoubleAcirclesGrid" ->
            {[NoDet EXCEPT !.found = TRUE, !.points = GridAt(a, size),
                           !.bFound = TRUE, !.bPoints = BlackGridAt(a, size)] : a \in Anchors}
            \cup {[NoDet EXCEPT !.found = TRUE, !.points = GridAt(a, size)] : a \in HalfPoses}
            \cup {[NoDet EXCEPT !.points = p, !.bFound = b] : p \in FailOutputs, b \in BOOLEAN}
      [] type = "chAruco" ->
            {[NoDet EXCEPT !.corners = CornersAt(a), !.ids = <<0, 1>>] : a \in Anchors}
            \cup {NoDet}

(***************************************************************************)
(* The four detection strategies.  Each returns                            *)
(*   found    its return value (isTemplateFound)                           *)
(*   points   mCurrentImagePoints when it returns                          *)
(*   locs     mTemplateLocations when it returns                           *)
(*   corners, ids   mCurrentCharucoCorners, mCurrentCharucoIds             *)
(* given the members as they are when it is called: locs, and for the      *)
(* charuco members cc and ci (mCurrentImagePoints was just cleared).       *)
(***************************************************************************)
\* mutant: a frame without detection records a placeholder location
detectAndParseChessboardPlaceholder(det, locs, cc, ci) ==
    [found |-> det.found,
     points |-> det.points,
     locs |-> InsertFront(locs, IF det.found THEN det.points[1] ELSE ZeroPoint),
     corners |-> cc, ids |-> ci]

detectAndParseChessboard(det, locs, cc, ci) ==
    [found |-> det.found,
     points |-> det.points,
     locs |-> IF det.found THEN InsertFront(locs, det.points[1]) ELSE locs,
     corners |-> cc, ids |-> ci]

\* mutant: the corners and ids of this frame are not stored in the members
detectAndParseChArucoStale(det, locs, cc, ci) ==
    IF Len(det.corners) > 0
    THEN [found |-> TRUE,
          points |-> <<>>,
          locs |-> InsertFront(locs, Centroid(det.corners)),
          corners |-> cc, ids |-> ci]
    ELSE [found |-> FALSE, points |-> <<>>, locs |-> locs, corners |-> cc, ids |-> ci]

detectAndParseChAruco(det, locs, cc, ci) ==
    IF Len(det.corners) > 0
    THEN [found |-> TRUE,
          points |-> <<>>,
          locs |-> InsertFront(locs, Centroid(det.corners)),
          corners |-> det.corners, ids |-> det.ids]
    ELSE [found |-> FALSE, points |-> <<>>, locs |-> locs, corners |-> cc, ids |-> ci]

detectAndParseACircles(det, locs, cc, ci) ==
    [found |-> det.found,
     points |-> det.points,
     locs |-> IF det.found THEN InsertFront(locs, det.points[1]) ELSE locs,
     corners |-> cc, ids |-> ci]

detectAndParseDualACircles(det, locs, cc, ci) ==
    IF ~det.found
    THEN [found |-> FALSE, points |-> det.points, locs |-> locs,
          corners |-> cc, ids |-> ci]
    ELSE IF ~det.bFound
    THEN [found |-> FALSE, points |-> <<>>, locs |-> locs, corners |-> cc, ids |-> ci]
    ELSE LET pts == InsertEnd(det.points, det.bPoints)
         IN  [found |-> TRUE, points |-> pts, locs |-> InsertFront(locs, pts[1]),
              corners |-> cc, ids |-> ci]

(***************************************************************************)
(* saveFrameData: the object points of each geometry.  A coordinate of the *)
(* chessboard and of the circle grid is given in units of 1/20: n * 326    *)
(* stands for the float n * 16.3f.                                         *)
(***************************************************************************)
\* mutant: the two loop indices exchanged in the point
ChessboardObjectPointsByColumn(size) ==
    [k \in 1..(size[2] * size[1]) |->
        LET i == (k - 1) \div size[1]
            j == (k - 1) % size[1]
        IN  <<i * squareSize, j * squareSize, 0>>]

ChessboardObjectPoints(size) ==
    [k \in 1..(size[2] * size[1]) |->
        LET i == (k - 1) \div size[1]
            j == (k - 1) % size[1]
        IN  <<j * squareSize, i * squareSize, 0>>]

AcirclesObjectPoints(size) ==
    [k \in 1..(size[2] * size[1]) |->
        LET i == (k - 1) \div size[1]
            j == (k - 1) % size[1]
        IN  <<(2 * j + (i % 2)) * squareSize, i * squareSize, 0>>]

\* The double grid.  squareSize and acircleGrid2Distance are floats and every
\* operation on them is a float operation, rounded; an int operand is
\* converted to float first.  A coordinate is the float the code computes,
\* as a fraction in lowest terms, and a point is <<x, y, z>>.

\* the float of a length given in twentieths
FloatOf(n) == RoundFloat(n, 20)

\* float squareSize = 16.3f, acircleGrid2Distance = 295.f
squareSizeFloat == FloatOf(squareSize)
acircleGrid2DistanceFloat == FloatOf(acircleGrid2Distance)

\* (float)n of an int
IntToFloat(n) == RoundFloat(n, 1)

\* float x * float y
FloatMul(x, y) == RoundFloat(x[1] * y[1], x[2] * y[2])

\* -x of a float
FloatNeg(x) == <<0 - x[1], x[2]>>

\* (2*((float)mBoardSize.width - 1) + 1)*squareSize + acircleGrid2Distance/2
gridCenterX(size) ==
    FloatAdd(FloatMul(FloatAdd(FloatMul(IntToFloat(2),
                                        FloatSub(IntToFloat(size[1]), IntToFloat(1))),
                               IntToFloat(1)),
                      squareSizeFloat),
             FloatDiv(acircleGrid2DistanceFloat, 2))

\* (mBoardSize.height - 1)*squareSize/2
gridCenterY(size) ==
    FloatDiv(FloatMul(IntToFloat(size[2] - 1), squareSizeFloat), 2)

\* -float(i*squareSize) - gridCenterY
DoubleGridY(i, size) ==
    FloatSub(FloatNeg(FloatMul(IntToFloat(i), squareSizeFloat)), gridCenterY(size))

\* -float((2*j + i % 2)*squareSize + acircleGrid2Distance
\*        + (2*(mBoardSize.width - 1) + 1)*squareSize - gridCenterX)
WhiteX(i, j, size) ==
    FloatNeg(
        FloatSub(
            FloatAdd(
                FloatAdd(FloatMul(IntToFloat(2 * j + (i % 2)), squareSizeFloat),
                         acircleGrid2DistanceFloat),
                FloatMul(IntToFloat(2 * (size[1] - 1) + 1), squareSizeFloat)),
            gridCenterX(size)))

\* -float((2*j + i % 2)*squareSize - gridCenterX)
BlackX(i, j, size) ==
    FloatNeg(FloatSub(FloatMul(IntToFloat(2 * j + (i % 2)), squareSizeFloat),
                      gridCenterX(size)))

WhiteObjectPoints(size) ==
    [k \in 1..(size[2] * size[1]) |->
        LET i == (k - 1) \div size[1]
            j == (k - 1) % size[1]
        IN  <<WhiteX(i, j, size), DoubleGridY(i, size), IntToFloat(0)>>]

BlackObjectPoints(size) ==
    [k \in 1..(size[2] * size[1]) |->
        LET i == (k - 1) \div size[1]
            j == (k - 1) % size[1]
        IN  <<BlackX(i, j, size), DoubleGridY(i, size), IntToFloat(0)>>]

DoubleAcirclesObjectPoints(size) == WhiteObjectPoints(size) \o BlackObjectPoints(size)

\* mutant: nothing is appended
saveFrameDataNoAppend(points, corners, ids) == UNCHANGED dataVars

\* mutant: the chAruco case runs on into the AcirclesGrid case
saveFrameDataFallThrough(points, corners, ids) ==
    CASE mBoardType = "Chessboard" ->
            /\ imagePoints' = Append(imagePoints, points)
            /\ objectPoints' = Append(objectPoints, ChessboardObjectPoints(mBoardSize))
            /\ UNCHANGED <<allCharucoCorners, allCharucoIds>>
      [] mBoardType = "chAruco" ->
            /\ allCharucoCorners' = Append(allCharucoCorners, corners)
            /\ allCharucoIds' = Append(allCharucoIds, ids)
            /\ imagePoints' = Append(imagePoints, points)
            /\ objectPoints' = Append(objectPoints, AcirclesObjectPoints(mBoardSize))
      [] mBoardType = "AcirclesGrid" ->
            /\ imagePoints' = Append(imagePoints, points)
            /\ objectPoints' = Append(objectPoints, AcirclesObjectPoints(mBoardSize))
            /\ UNCHANGED <<allCharucoCorners, allCharucoIds>>
      [] mBoardType = "DoubleAcirclesGrid" ->
            /\ imagePoints' = Append(imagePoints, points)
            /\ objectPoints' = Append(objectPoints, DoubleAcirclesObjectPoints(mBoardSize))
            /\ UNCHANGED <<allCharucoCorners, allCharucoIds>>

\* mutant: the AcirclesGrid case appends no object points
saveFrameDataNoObjectPoints(points, corners, ids) ==
    CASE mBoardType = "Chessboard" ->
            /\ imagePoints' = Append(imagePoints, points)
            /\ objectPoints' = Append(objectPoints, ChessboardObjectPoints(mBoardSize))
            /\ UNCHANGED <<allCharucoCorners, allCharucoIds>>
      [] mBoardType = "chAruco" ->
            /\ allCharucoCorners' = Append(allCharucoCorners, corners)
            /\ allCharucoIds' = Append(allCharucoIds, ids)
            /\ UNCHANGED <<imagePoints, objectPoints>>
      [] mBoardType = "AcirclesGrid" ->
            /\ imagePoints' = Append(imagePoints, points)
            /\ UNCHANGED <<objectPoints, allCharucoCorners, allCharucoIds>>
      [] mBoardType = "DoubleAcirclesGrid" ->
            /\ imagePoints' = Append(imagePoints, points)
            /\ objectPoints' = Append(objectPoints, DoubleAcirclesObjectPoints(mBoardSize))
            /\ UNCHANGED <<allCharucoCorners, allCharucoIds>>

\* saveFrameData(), with the members it reads as they are when it is called
saveFrameData(points, corners, ids) ==
    CASE mBoardType = "Chessboard" ->
            /\ imagePoints' = Append(imagePoints, points)
            /\ objectPoints' = Append(objectPoints, ChessboardObjectPoints(mBoardSize))
            /\ UNCHANGED <<allCharucoCorners, allCharucoIds>>
      [] mBoardType = "chAruco" ->
            /\ allCharucoCorners' = Append(allCharucoCorners, corners)
            /\ allCharucoIds' = Append(allCharucoIds, ids)
            /\ UNCHANGED <<imagePoints, objectPoints>>
      [] mBoardType = "AcirclesGrid" ->
            /\ imagePoints' = Append(imagePoints, points)
            /\ objectPoints' = Append(objectPoints, AcirclesObjectPoints(mBoardSize))
            /\ UNCHANGED <<allCharucoCorners, allCharucoIds>>
      [] mBoardType = "DoubleAcirclesGrid" ->
            /\ imagePoints' = Append(imagePoints, points)
            /\ objectPoints' = Append(objectPoints, DoubleAcirclesObjectPoints(mBoardSize))
            /\ UNCHANGED <<allCharucoCorners, allCharucoIds>>

(***************************************************************************)
(* processFrame.                                                           *)
(***************************************************************************)
\* the switch on mBoardType: the detection of this frame
Detected(det) ==
    CASE mBoardType = "Chessboard" ->
            detectAndParseChessboard(det, mTemplateLocations,
                                     mCurrentCharucoCorners, mCurrentCharucoIds)
      [] mBoardType = "chAruco" ->
            detectAndParseChAruco(det, mTemplateLocations,
                                  mCurrentCharucoCorners, mCurrentCharucoIds)
      [] mBoardType = "AcirclesGrid" ->
            detectAndParseACircles(det, mTemplateLocations,
                                   mCurrentCharucoCorners, mCurrentCharucoIds)
      [] mBoardType = "DoubleAcirclesGrid" ->
            detectAndParseDualACircles(det, mTemplateLocations,
                                       mCurrentCharucoCorners, mCurrentCharucoIds)

\* mutant: the oldest entry is dropped as soon as the history is full
EvictedAtCapacity(locs) == IF Len(locs) >= delayBetweenCaptures THEN PopBack(locs) ELSE locs

\* if(mTemplateLocations.size() > delayBetweenCaptures) mTemplateLocations.pop_back();
Evicted(locs) == IF Len(locs) > delayBetweenCaptures THEN PopBack(locs) ELSE locs

\* mutant: the newest anchor is compared with the one before it
GateNeighbour(locs, found) ==
    /\ Len(locs) = delayBetweenCaptures
    /\ found
    /\ WithinOffset(locs[1], locs[2])

\* mutant: the history is compared one entry early
GateOneEarly(locs, found) ==
    /\ Len(locs) = delayBetweenCaptures - 1 /\ found
    /\ WithinOffset(locs[1], locs[delayBetweenCaptures - 1])

\* mutant: the size of the history is not checked
GateNoDelay(locs, found) ==
    /\ Len(locs) >= 1 /\ found
    /\ WithinOffset(locs[1], locs[Len(locs)])

\* the two conditions under which the frame is captured
Gate(locs, found) ==
    /\ Len(locs) = delayBetweenCaptures /\ found
    /\ WithinOffset(locs[1], locs[delayBetweenCaptures])

\* mTemplateLocations.clear(); mTemplateLocations.resize(delayBetweenCaptures);
AfterCapture == Resized(delayBetweenCaptures)

\* whether processFrame captures the frame whose detector outcome is det
Trigger(det) == Gate(Evicted(Detected(det).locs), Detected(det).found)

\* processFrame from its entry to its return or, when it captures, to
\* cv::waitKey(300): saveFrameData is done, the count and the history are not
ProcessFrame(det) ==
    LET r == Detected(det)
        locs == Evicted(r.locs)
    IN  /\ pc = "idle"
        /\ mCurrentImagePoints' = r.points
        /\ mCurrentCharucoCorners' = r.corners
        /\ mCurrentCharucoIds' = r.ids
        /\ mTemplateLocations' = locs
        /\ IF Gate(locs, r.found)
           THEN /\ saveFrameData(r.points, r.corners, r.ids)
                /\ pc' = "waitKey"
           ELSE /\ pc' = "idle"
                /\ UNCHANGED dataVars
        /\ UNCHANGED <<mBoardType, mBoardSize, mCapuredFrames, mNeededFramesNum, calibVars>>

\* processFrame from the return of cv::waitKey(300) to its own return:
\* mCapuredFrames++; mTemplateLocations.clear(); mTemplateLocations.resize(...)
AfterWaitKey ==
    /\ pc = "waitKey"
    /\ mCapuredFrames' = mCapuredFrames + 1
    /\ mTemplateLocations' = AfterCapture
    /\ pc' = "idle"
    /\ UNCHANGED <<mBoardType, mBoardSize, mNeededFramesNum, mCurrentImagePoints,
                   mCurrentCharucoCorners, mCurrentCharucoIds, dataVars, calibVars>>

\* mutant: the comparison is off by one
isProcessedOffByOne == IF mCapuredFrames <= mNeededFramesNum THEN FALSE ELSE TRUE

\* CalibProcessor::isProcessed
isProcessed == IF mCapuredFrames < mNeededFramesNum THEN FALSE ELSE TRUE

\* mutant: the reset also discards the samples
ResetStateDiscards ==
    /\ mCapuredFrames' = 0
    /\ mTemplateLocations' = <<>>
    /\ imagePoints' = <<>>
    /\ objectPoints' = <<>>
    /\ allCharucoCorners' = <<>>
    /\ allCharucoIds' = <<>>
    /\ UNCHANGED <<mBoardType, mBoardSize, mNeededFramesNum, mCurrentImagePoints,
                   mCurrentCharucoCorners, mCurrentCharucoIds, pc, calibVars>>

\* CalibProcessor::resetState
ResetState ==
    /\ mCapuredFrames' = 0
    /\ mTemplateLocations' = <<>>
    /\ UNCHANGED <<mBoardType, mBoardSize, mNeededFramesNum, mCurrentImagePoints,
                   mCurrentCharucoCorners, mCurrentCharucoIds, pc, dataVars, calibVars>>

\* the target count configured from outside the processor
SetNeededFramesNum(n) ==
    /\ mNeededFramesNum' = n
    /\ UNCHANGED <<mBoardType, mBoardSize, mCapuredFrames, mTemplateLocations,
                   mCurrentImagePoints, mCurrentCharucoCorners, mCurrentCharucoIds,
                   pc, dataVars, calibVars>>

\* CalibProcessor::CalibProcessor(data, board, boardSize), data holding no
\* sample and no calibration yet
Constructed(board, boardSize) ==
    /\ mBoardType = board
    /\ mBoardSize = boardSize
    /\ mCapuredFrames = 0
    /\ mNeededFramesNum = 1
    /\ mTemplateLocations = <<>>
    /\ mCurrentImagePoints = <<>>
    /\ mCurrentCharucoCorners = <<>>
    /\ mCurrentCharucoIds = <<>>
    /\ pc = "idle"
    /\ imagePoints = <<>>
    /\ objectPoints = <<>>
    /\ allCharucoCorners = <<>>
    /\ allCharucoIds = <<>>
    /\ cameraMatrix = 0
    /\ distCoeffs = 0
    /\ totalAvgErr = 0

(***************************************************************************)
(* Observers: what a test harness around the processor records.  They are  *)
(* written by no code of the processor and read by none.                   *)
(***************************************************************************)
NumSamples == Len(imagePoints) + Len(allCharucoCorners)

\* the anchor of a detection: the first grid point, or the corners' centroid
DetAnchor(det) ==
    IF mBoardType = "chAruco" THEN Centroid(det.corners) ELSE det.points[1]

Newest(s, n) == SubSeq(s, 1, IF Len(s) < n THEN Len(s) ELSE n)

\* the number of equal entries s starts with
NewestRun(s) ==
    IF s = <<>> THEN 0
    ELSE LET other == {i \in 1..Len(s) : s[i] # s[1]}
         IN  IF other = {} THEN Len(s)
             ELSE (CHOOSE i \in other : \A k \in other : i <= k) - 1

\* the board stays in a pose for at least MinHold detections
PoseAllowed(det) ==
    IF ~Detected(det).found THEN TRUE
    ELSE IF recent = <<>> THEN TRUE
    ELSE IF DetAnchor(det) = recent[1] THEN TRUE
    ELSE NewestRun(recent) >= MinHold

Broken == 0 - 1

ObserveFrame(det) ==
    LET found == Detected(det).found
    IN  /\ lastCall' = "processFrame"
        /\ lastDet' = det
        /\ isTemplateFound' = found
        /\ triggered' = Trigger(det)
        /\ recent' = IF Trigger(det) THEN <<>>
                     ELSE IF found
                          THEN Newest(<<DetAnchor(det)>> \o recent, delayBetweenCaptures)
                          ELSE recent
        /\ steady' = IF /\ found
                        /\ steady # Broken
                        /\ steady < delayBetweenCaptures
                        /\ Len(recent) = steady
                        /\ \A i \in 1..steady : WithinOffset(DetAnchor(det), recent[i])
                     THEN steady + 1
                     ELSE Broken
        /\ totalTriggers' = IF Trigger(det) THEN totalTriggers + 1 ELSE totalTriggers

ObserveReset ==
    /\ lastCall' = "resetState"
    /\ lastDet' = NoDet
    /\ isTemplateFound' = FALSE
    /\ triggered' = FALSE
    /\ recent' = <<>>
    /\ steady' = 0
    /\ UNCHANGED totalTriggers

ObserveInit ==
    /\ lastCall = "construct"
    /\ lastDet = NoDet
    /\ isTemplateFound = FALSE
    /\ triggered = FALSE
    /\ recent = <<>>
    /\ steady = 0
    /\ curRun = 0
    /\ nFound = 0
    /\ sinceCapture = Broken
    /\ totalTriggers = 0
    /\ trail = <<>>
    /\ shown = "nothing"
    /\ held = <<>>

\* one processFrame call, on a frame the bounds of the model admit
FrameStep(det, cap) ==
    /\ PoseAllowed(det)
    /\ IF Trigger(det) THEN NumSamples < cap ELSE TRUE
    /\ ProcessFrame(det)
    /\ ObserveFrame(det)

(***************************************************************************)
(* Spec: a processor of any geometry, fed frames and reset in any order.   *)
(***************************************************************************)
Init ==
    /\ \E board \in TemplateTypes, boardSize \in BoardSizes : Constructed(board, boardSize)
    /\ ObserveInit

Frame ==
    /\ \E det \in Detections(mBoardType, mBoardSize) : FrameStep(det, MaxSamples)
    /\ UNCHANGED <<curRun, nFound, sinceCapture, auxVars>>

Reset ==
    /\ pc = "idle"
    /\ ResetState
    /\ ObserveReset
    /\ UNCHANGED <<curRun, nFound, sinceCapture, auxVars>>

\* cv::waitKey(300) returns and the capturing call runs to its end
Resume ==
    /\ AfterWaitKey
    /\ UNCHANGED obsVars

Next == Frame \/ Resume \/ Reset

Spec == Init /\ [][Next]_vars

(***************************************************************************)
(* SpecRuns: a freshly constructed chessboard processor fed frames up to   *)
(* its first capture, with the runs of detection-present frames counted.   *)
(***************************************************************************)
Saturated(n) == IF n < delayBetweenCaptures THEN n ELSE delayBetweenCaptures

CountRuns(det) ==
    LET found == Detected(det).found
    IN  /\ curRun' = IF curRun = delayBetweenCaptures THEN curRun
                     ELSE IF found THEN curRun + 1
                     ELSE 0
        /\ nFound' = IF found THEN Saturated(nFound + 1) ELSE nFound

InitChessboard ==
    /\ \E boardSize \in BoardSizes : Constructed("Chessboard", boardSize)
    /\ ObserveInit

FrameRuns ==
    /\ NumSamples = 0
    /\ \E det \in Detections(mBoardType, mBoardSize) :
          FrameStep(det, MaxSamples) /\ CountRuns(det)
    /\ UNCHANGED <<sinceCapture, auxVars>>

NextRuns == FrameRuns \/ Resume

SpecRuns == InitChessboard /\ [][NextRuns]_vars

(***************************************************************************)
(* SpecGap: a freshly constructed chessboard processor fed frames, with    *)
(* the detection-present frames since the latest capture counted.          *)
(***************************************************************************)
CountGap(det) ==
    sinceCapture' = IF Trigger(det) THEN 0
                    ELSE IF sinceCapture = Broken THEN Broken
                    ELSE IF Detected(det).found THEN Saturated(sinceCapture + 1)
                    ELSE sinceCapture

FrameGap ==
    /\ \E det \in Detections(mBoardType, mBoardSize) :
          FrameStep(det, MaxSamples) /\ CountGap(det)
    /\ UNCHANGED <<curRun, nFound, auxVars>>

NextGap == FrameGap \/ Resume

SpecGap == InitChessboard /\ [][NextGap]_vars

(***************************************************************************)
(* SpecTarget: a chessboard processor whose target count is configured     *)
(* from outside, fed frames of a board shown in two poses, and reset.      *)
(***************************************************************************)
TargetDetections ==
    {det \in Detections(mBoardType, mBoardSize) :
        IF det.found THEN DetAnchor(det) \in {PoseA, PoseB} ELSE det.points = <<>>}

FrameTarget ==
    /\ \E det \in TargetDetections : FrameStep(det, MaxTarget)
    /\ UNCHANGED <<curRun, nFound, sinceCapture, auxVars>>

Configure ==
    /\ pc = "idle"
    /\ \E n \in 1..MaxTarget : SetNeededFramesNum(n)
    /\ lastCall' = "configure"
    /\ UNCHANGED <<lastDet, isTemplateFound, triggered, recent, steady,
                   curRun, nFound, sinceCapture, totalTriggers, auxVars>>

NextTarget == FrameTarget \/ Resume \/ Reset \/ Configure

SpecTarget == InitChessboard /\ [][NextTarget]_vars

(***************************************************************************)
(* SpecBoards: a processor of any geometry and of any board size the       *)
(* constructor accepts, a zero-sized one included, fed frames of a board   *)
(* that is held still or is out of view, and reset.  A grid detector       *)
(* reports a pattern only with the size[1] * size[2] points of the         *)
(* pattern, so it reports none for a zero-sized grid; the ChArUco detector *)
(* does not read mBoardSize.                                               *)
(***************************************************************************)
AllBoardSizes == {<<0, 0>>, <<0, 2>>, <<2, 0>>, <<1, 2>>, <<2, 2>>, <<3, 2>>, <<6, 9>>}

InitBoards ==
    /\ \E board \in TemplateTypes, boardSize \in AllBoardSizes :
          Constructed(board, boardSize)
    /\ ObserveInit

BoardDetections ==
    {det \in Detections(mBoardType, mBoardSize) :
        IF mBoardType = "chAruco"
        THEN det.corners \in {<<>>, CornersAt(PoseB)}
        ELSE IF det.found
             THEN /\ det.points # <<>>
                  /\ det.points[1] = PoseB
                  /\ (mBoardType = "DoubleAcirclesGrid" => det.bFound)
             ELSE det.points = <<>> /\ ~det.bFound}

FrameBoards ==
    /\ \E det \in BoardDetections : FrameStep(det, MaxSamples)
    /\ UNCHANGED <<curRun, nFound, sinceCapture, auxVars>>

NextBoards == FrameBoards \/ Resume \/ Reset

SpecBoards == InitBoards /\ [][NextBoards]_vars

(***************************************************************************)
(* SpecTrail: a chessboard processor fed frames of a board shown in two    *)
(* poses, and reset, with the anchors of the current unbroken run of       *)
(* detection-present frames recorded, newest first, the latest 30 of them. *)
(* A detection-absent frame ends the run; captures and resets do not.      *)
(***************************************************************************)
CountTrail(det) ==
    trail' = IF Detected(det).found
             THEN Newest(<<DetAnchor(det)>> \o trail, delayBetweenCaptures)
             ELSE <<>>

\* within a run too the board stays in a pose for at least MinHold detections
TrailAllowed(det) ==
    IF ~Detected(det).found THEN TRUE
    ELSE IF trail = <<>> THEN TRUE
    ELSE IF DetAnchor(det) = trail[1] THEN TRUE
    ELSE NewestRun(trail) >= MinHold

FrameTrail ==
    /\ \E det \in TargetDetections :
          TrailAllowed(det) /\ FrameStep(det, MaxSamples) /\ CountTrail(det)
    /\ UNCHANGED <<curRun, nFound, sinceCapture, shown, held>>

NextTrail == FrameTrail \/ Resume \/ Reset

SpecTrail == InitChessboard /\ [][NextTrail]_vars

(***************************************************************************)
(* SpecLive: a chessboard processor whose target is configured from        *)
(* outside, fed frames of a board in one pose or out of view and reset in  *)
(* any order, until the board is put down in a pose for good (held).  From *)
(* then on every frame shows the board detected in that pose and there is  *)
(* no reset and no configuration; the driver feeds frames for as long as   *)
(* the processor is not done, which it does without end as long as the     *)
(* camera delivers them: weak fairness of FrameHeld.  cv::waitKey(300)     *)
(* returns after 300 ms at the latest: weak fairness of Resume.            *)
(***************************************************************************)
HeldDetection(p) == [NoDet EXCEPT !.found = TRUE, !.points = GridAt(p, mBoardSize)]

FrameLive ==
    /\ held = <<>>
    /\ \E det \in BoardDetections : FrameStep(det, MaxSamples)
    /\ UNCHANGED <<curRun, nFound, sinceCapture, auxVars>>

ResetLive == held = <<>> /\ Reset

ConfigureLive == held = <<>> /\ Configure

Hold ==
    /\ held = <<>>
    /\ \E p \in {PoseA, PoseB} : PoseAllowed(HeldDetection(p)) /\ held' = p
    /\ UNCHANGED <<progVars, dataVars, calibVars, lastCall, lastDet, isTemplateFound,
                   triggered, recent, steady, curRun, nFound, sinceCapture,
                   totalTriggers, trail, shown>>

FrameHeld ==
    /\ held # <<>>
    /\ ~isProcessed
    /\ FrameStep(HeldDetection(held), MaxSamples + MaxTarget)
    /\ UNCHANGED <<curRun, nFound, sinceCapture, auxVars>>

NextLive == FrameLive \/ ResetLive \/ ConfigureLive \/ Hold \/ FrameHeld \/ Resume

SpecLive ==
    InitChessboard /\ [][NextLive]_vars /\ WF_vars(FrameHeld) /\ WF_vars(Resume)

(***************************************************************************)
(* ShowProcessor, the preview mode.  It holds only the reference to the    *)
(* calibration data; cameraMatrix and distCoeffs stand for their size[0].  *)
(***************************************************************************)
\* ShowProcessor::processFrame: the undistorted view when both parameters are
\* populated, else the frame with the marker drawn on it
ShowProcessFrame ==
    /\ shown' = IF cameraMatrix # 0 /\ distCoeffs # 0 THEN "undistorted" ELSE "placeholder"
    /\ UNCHANGED <<progVars, dataVars, calibVars>>

\* mutant: the preview is done once the parameters are populated
ShowIsProcessedWhenCalibrated == cameraMatrix # 0 /\ distCoeffs # 0

\* ShowProcessor::isProcessed
ShowIsProcessed == FALSE

\* ShowProcessor::resetState
ShowResetState == UNCHANGED <<progVars, dataVars, calibVars>>

\* the solver of the application, run on a dataset that holds samples: it
\* populates the 3 x 3 camera matrix, the distortion coefficients and the error
Solve ==
    /\ NumSamples >= 1
    /\ cameraMatrix' = 3
    /\ distCoeffs' = 5
    /\ totalAvgErr' \in {1, 2}
    /\ UNCHANGED <<progVars, dataVars>>

(***************************************************************************)
(* SpecShow: a chessboard capture processor and a preview processor on the *)
(* same calibration data, the driver feeding either of them, resetting     *)
(* either of them and running the solver, in any order.                    *)
(***************************************************************************)
ShowFrame ==
    /\ pc = "idle"
    /\ ShowProcessFrame
    /\ lastCall' = "show.processFrame"
    /\ UNCHANGED <<lastDet, isTemplateFound, triggered, recent, steady, curRun, nFound,
                   sinceCapture, totalTriggers, trail, held>>

ShowReset ==
    /\ pc = "idle"
    /\ ShowResetState
    /\ lastCall' = "show.resetState"
    /\ UNCHANGED <<lastDet, isTemplateFound, triggered, recent, steady, curRun, nFound,
                   sinceCapture, totalTriggers, trail, shown, held>>

Calibrate ==
    /\ pc = "idle"
    /\ Solve
    /\ lastCall' = "solve"
    /\ UNCHANGED <<lastDet, isTemplateFound, triggered, recent, steady, curRun, nFound,
                   sinceCapture, totalTriggers, trail, shown, held>>

NextShow == FrameBoards \/ Resume \/ Reset \/ Calibrate \/ ShowFrame \/ ShowReset

SpecShow == InitChessboard /\ [][NextShow]_vars

(***************************************************************************)
(* The claims.                                                             *)
(***************************************************************************)
IsPrefix(u, v) == Len(u) <= Len(v) /\ SubSeq(v, 1, Len(u)) = u

\* a step that is a processFrame call, up to its return or to its wait
FrameCall == pc = "idle" /\ lastCall' = "processFrame"

\* a step in which a processFrame call returns
FrameReturn == lastCall' = "processFrame" /\ pc' = "idle"

\* C1: from an empty history, while detection has succeeded on every frame
\* and all anchors lie within the movement threshold of one another, frames
\* 1..29 capture nothing and frame 30 makes the one capture.
C1_SteadyWindowCapturesOnce ==
    /\ steady \in 1..(delayBetweenCaptures - 1) => (~triggered /\ mCapuredFrames = 0)
    /\ steady = delayBetweenCaptures =>
          (triggered /\ mCapuredFrames = IF pc = "idle" THEN 1 ELSE 0)

C1_Witness ==
    steady = delayBetweenCaptures /\ triggered /\ pc = "idle" /\ mCapuredFrames = 1

\* C2 (as claimed): right after a processFrame call that captured, the
\* history is empty.
C2_EmptyHistoryAfterCapture ==
    (lastCall = "processFrame" /\ triggered /\ pc = "idle") => mTemplateLocations = <<>>

\* C3 (as claimed): while every run of consecutive detection-present frames
\* fed to a fresh processor is shorter than 30, nothing is captured.
C3_ShortRunsNeverCapture ==
    curRun < delayBetweenCaptures => (mCapuredFrames = 0 /\ NumSamples = 0)

\* C3 (amended): while a fresh processor has been fed fewer than 30
\* detection-present frames in all, nothing is captured.
C3_FewDetectionsNeverCapture ==
    nFound < delayBetweenCaptures => (mCapuredFrames = 0 /\ NumSamples = 0)

C3_Witness ==
    /\ nFound = delayBetweenCaptures - 1
    /\ lastCall = "processFrame" /\ ~isTemplateFound
    /\ curRun = 0

\* C4 (as claimed): a capture that follows another capture comes at least 30
\* detection-present frames after it.
C4_CapturesThirtyApart ==
    [][(FrameCall /\ triggered')
         => (sinceCapture = Broken \/ sinceCapture + 1 >= delayBetweenCaptures)]_vars

\* C5: isProcessed() is true exactly when the captured-frame count has reached
\* the target; with target 1 it is false while nothing was captured and true
\* right after a capture; with target 3 it is false while at most two samples
\* were captured and true right after the capture that makes the count 3.
C5_ProcessedIffTargetReached ==
    /\ isProcessed <=> mCapuredFrames >= mNeededFramesNum
    /\ mNeededFramesNum = 1 =>
          /\ NumSamples = 0 => ~isProcessed
          /\ (triggered /\ pc = "idle") => isProcessed
    /\ mNeededFramesNum = 3 =>
          /\ NumSamples <= 2 => ~isProcessed
          /\ (triggered /\ pc = "idle" /\ mCapuredFrames = 3) => isProcessed

C5_Witness ==
    /\ mNeededFramesNum = 3 /\ triggered /\ pc = "idle"
    /\ mCapuredFrames = 3 /\ isProcessed

\* C6: resetState() zeroes the captured-frame count, empties the history,
\* leaves the dataset and the calibration parameters as they were, and
\* isProcessed() is false afterwards.
C6_ResetKeepsDataset ==
    [][lastCall' = "resetState"
         => /\ mCapuredFrames' = 0
            /\ mTemplateLocations' = <<>>
            /\ ~isProcessed'
            /\ UNCHANGED <<dataVars, calibVars>>]_vars

C6_Witness ==
    /\ lastCall = "resetState"
    /\ NumSamples = 2
    /\ mCapuredFrames = 0 /\ mTemplateLocations = <<>>
    /\ mNeededFramesNum = 2

\* C7: a processFrame call appends one sample and adds one to the count when
\* the gate triggers, changes neither when it does not, never triggers on a
\* frame without detection, and leaves the samples already in the dataset and
\* the calibration parameters as they were.  A call that triggers makes two
\* steps, the second of which is the only step of a processor in its wait:
\* the first appends the sample, the second counts it.
C7_CaptureAtomic ==
    [][/\ pc = "waitKey"
          => /\ FrameReturn /\ triggered'
             /\ mCapuredFrames' = mCapuredFrames + 1
             /\ UNCHANGED <<dataVars, calibVars>>
       /\ FrameCall
         => /\ IF triggered'
               THEN /\ NumSamples' = NumSamples + 1
                    /\ mCapuredFrames' = mCapuredFrames
                    /\ pc' = "waitKey"
               ELSE /\ UNCHANGED dataVars
                    /\ mCapuredFrames' = mCapuredFrames
                    /\ pc' = "idle"
            /\ ~isTemplateFound' => ~triggered'
            /\ IsPrefix(imagePoints, imagePoints')
            /\ IsPrefix(objectPoints, objectPoints')
            /\ IsPrefix(allCharucoCorners, allCharucoCorners')
            /\ IsPrefix(allCharucoIds, allCharucoIds')
            /\ Len(imagePoints') = Len(objectPoints')
            /\ Len(allCharucoCorners') = Len(allCharucoIds')
            /\ UNCHANGED calibVars]_vars

C7_Witness ==
    /\ lastCall = "processFrame" /\ triggered /\ pc = "idle"
    /\ NumSamples = 2 /\ mCapuredFrames = 2

\* C8: the history never holds more than 30 entries, and the anchors detected
\* since it was last cleared are its first entries, the latest first.
C8_HistoryBoundedNewestFirst ==
    /\ Len(mTemplateLocations) <= delayBetweenCaptures
    /\ Len(recent) <= Len(mTemplateLocations)
    /\ \A i \in 1..Len(recent) : mTemplateLocations[i] = recent[i]

C8_Witness ==
    /\ Len(mTemplateLocations) = delayBetweenCaptures
    /\ Len(recent) = delayBetweenCaptures
    /\ recent[1] # recent[delayBetweenCaptures]

\* C9 (as claimed): a frame without detection processed while the history
\* holds 30 entries evicts the oldest (29 remain) and captures nothing.
C9_AbsentFrameEvicts ==
    [][(FrameCall /\ ~isTemplateFound' /\ Len(mTemplateLocations) = delayBetweenCaptures)
         => (Len(mTemplateLocations') = delayBetweenCaptures - 1 /\ ~triggered')]_vars

\* C9 (amended): a frame without detection leaves the history as it was (30
\* entries remain 30) and captures nothing.
C9_AbsentFrameKeepsHistory ==
    [][(FrameCall /\ ~isTemplateFound')
         => /\ mTemplateLocations' = mTemplateLocations
            /\ ~triggered'
            /\ UNCHANGED <<mCapuredFrames, dataVars>>]_vars

C9_Witness ==
    /\ lastCall = "processFrame" /\ ~isTemplateFound
    /\ Len(mTemplateLocations) = delayBetweenCaptures
    /\ recent = mTemplateLocations

\* C10 (as claimed): for a double grid, when either sub-grid is not found the
\* detection is absent, nothing is captured and the image-point buffer is
\* empty when the call returns.
C10_HalfDetectionDiscarded ==
    (/\ mBoardType = "DoubleAcirclesGrid"
     /\ lastCall = "processFrame"
     /\ ~(lastDet.found /\ lastDet.bFound))
        => (~isTemplateFound /\ ~triggered /\ mCurrentImagePoints = <<>>)

\* C11: for a Chessboard of W columns by H rows, every object-point entry in
\* the dataset has exactly W * H points in row-major order, the point of row i
\* and column j, at index i * W + j, being (j * 16.3, i * 16.3, 0); for a
\* 6 x 9 board the point (j = 2, i = 1) is (32.6, 16.3, 0), which is
\* (652, 326, 0) in units of 1/20.
C11_ChessboardObjectPointsRowMajor ==
    mBoardType = "Chessboard" =>
        \A n \in 1..Len(objectPoints) :
            LET W == mBoardSize[1]
                H == mBoardSize[2]
                entry == objectPoints[n]
            IN  /\ Len(entry) = W * H
                /\ \A i \in 0..(H - 1), j \in 0..(W - 1) :
                      entry[i * W + j + 1] = <<j * 326, i * 326, 0>>
                /\ (mBoardSize = <<6, 9>> => entry[1 * 6 + 2 + 1] = <<652, 326, 0>>)

C11_Witness ==
    /\ mBoardType = "Chessboard"
    /\ mBoardSize = <<6, 9>>
    /\ triggered
    /\ Len(objectPoints) = 2
    /\ Len(objectPoints[2]) = 54

\* C12: a processor whose grid has zero width or zero height is rejected when
\* it is constructed, so with a zero-sized grid no processFrame call ever runs
\* and no sample is ever appended: such a processor is never past its
\* construction and its dataset is empty.
C12_ZeroSizedGridRejected ==
    (mBoardSize[1] = 0 \/ mBoardSize[2] = 0) =>
        lastCall = "construct" /\ NumSamples = 0

\* C13: the two sample representations are never mixed.  Every step of a
\* chAruco processor leaves imagePoints and objectPoints as they are and at
\* most appends to allCharucoCorners and allCharucoIds; every step of a
\* Chessboard, AcirclesGrid or DoubleAcirclesGrid processor leaves
\* allCharucoCorners and allCharucoIds as they are and at most appends to
\* imagePoints and objectPoints.
C13_RepresentationsNotMixed ==
    [][IF mBoardType = "chAruco"
       THEN /\ UNCHANGED <<imagePoints, objectPoints>>
            /\ IsPrefix(allCharucoCorners, allCharucoCorners')
            /\ IsPrefix(allCharucoIds, allCharucoIds')
       ELSE /\ UNCHANGED <<allCharucoCorners, allCharucoIds>>
            /\ IsPrefix(imagePoints, imagePoints')
            /\ IsPrefix(objectPoints, objectPoints')]_vars

C13_Witness ==
    /\ mBoardType = "chAruco"
    /\ triggered
    /\ Len(allCharucoCorners) = 2
    /\ Len(allCharucoIds) = 2
    /\ imagePoints = <<>>
    /\ objectPoints = <<>>

\* C14: the preview processor's isProcessed is false in every reachable
\* state: whether or not the dataset holds samples or calibration parameters,
\* and after any number of preview processFrame and resetState calls.
C14_PreviewNeverProcessed == ShowIsProcessed = FALSE

C14_Witness ==
    /\ lastCall = "show.resetState"
    /\ shown = "undistorted"
    /\ cameraMatrix # 0
    /\ distCoeffs # 0
    /\ NumSamples = 2

\* C15: a processFrame call captures (the dataset gains a sample) if and only
\* if, after the anchor of a detected frame has been put in front of the
\* history and an entry beyond the 30th dropped, (a) the history holds exactly
\* 30 entries, (b) detection is present on this frame and (c) the distance
\* between entry 0, the newest, and entry 29, the oldest, is strictly less
\* than 80 pixels: a distance of exactly 80 does not capture.
C15_CaptureIffGate ==
    [][FrameCall =>
        LET inserted == IF isTemplateFound'
                        THEN <<DetAnchor(lastDet')>> \o mTemplateLocations
                        ELSE mTemplateLocations
            history  == IF Len(inserted) > 30 THEN SubSeq(inserted, 1, 30) ELSE inserted
        IN  (NumSamples' = NumSamples + 1) <=>
                /\ Len(history) = 30
                /\ isTemplateFound'
                /\ NormSq(history[1], history[30]) <
                       80 * 80 * Den(Diff(history[1], history[30]))
                               * Den(Diff(history[1], history[30]))]_vars

\* a detected frame on a full history whose newest and oldest entries are
\* exactly 80 pixels apart, and no capture
C15_Witness ==
    /\ lastCall = "processFrame"
    /\ isTemplateFound
    /\ ~triggered
    /\ Len(mTemplateLocations) = 30
    /\ mTemplateLocations[1] = <<117, 148, 2>>
    /\ mTemplateLocations[30] = <<21, 20, 2>>

\* C16: whenever a capture triggers, the pattern stayed within the threshold
\* for the 30 consecutive frames that end at the triggering frame: detection
\* was present on each of those 30 frames and every one of their anchors,
\* not only the oldest, lies within the threshold of the newest anchor.
C16_CaptureAfterThirtySteadyFrames ==
    [][(FrameCall /\ triggered') =>
        /\ Len(trail') = 30
        /\ \A i \in 1..Len(trail') : WithinOffset(trail'[1], trail'[i])]_vars

\* C16, as the code has it: whenever a capture triggers, detection is present
\* on the triggering frame and its anchor lies within the threshold of the
\* oldest entry of the 30-entry history, which is the anchor of the 30th
\* latest detection-present frame since the history was last cleared or, when
\* fewer than 30 frames were detected since the latest capture, a (0,0)
\* filler.  Nothing holds of the frames and anchors in between.
C16_CaptureComparesNewestWithOldest ==
    [][(FrameCall /\ triggered') =>
        /\ isTemplateFound'
        /\ IF Len(recent) >= 29
           THEN WithinOffset(DetAnchor(lastDet'), recent[29])
           ELSE /\ WithinOffset(DetAnchor(lastDet'), <<0, 0>>)
                /\ mTemplateLocations[29] = <<0, 0>>]_vars

\* a capture at the end of 30 consecutive detected frames, one of whose
\* anchors lies beyond the threshold of the newest
C16_Witness ==
    /\ lastCall = "processFrame"
    /\ triggered
    /\ Len(trail) = 30
    /\ \E i \in 1..Len(trail) : ~WithinOffset(trail[1], trail[i])

\* x <= y of two floats
FloatLeq(x, y) ==
    LET d == IF x[2] > y[2] THEN x[2] ELSE y[2]
    IN  x[1] * (d \div x[2]) <= y[1] * (d \div y[2])

MinOf(S) == CHOOSE m \in S : \A n \in S : FloatLeq(m, n)
MaxOf(S) == CHOOSE m \in S : \A n \in S : FloatLeq(n, m)

\* C17: for a DoubleAcirclesGrid of W >= 1 columns by H >= 2 rows, the
\* 2 * W * H object points of a sample (the white sub-grid, then the black
\* one) have a bounding box centred at the origin on both axes:
\* min x = -max x and min y = -max y.
C17_DoubleGridCentredAtOrigin ==
    (mBoardType = "DoubleAcirclesGrid" /\ mBoardSize[1] >= 1 /\ mBoardSize[2] >= 2) =>
        \A n \in 1..Len(objectPoints) :
            LET entry == objectPoints[n]
                xs == {entry[k][1] : k \in 1..Len(entry)}
                ys == {entry[k][2] : k \in 1..Len(entry)}
            IN  /\ Len(entry) = 2 * mBoardSize[1] * mBoardSize[2]
                /\ MinOf(xs) = FloatNeg(MaxOf(xs))
                /\ MinOf(ys) = FloatNeg(MaxOf(ys))

Last(q) == q[Len(q)]

\* C18: the sample appended on a capture is the detection of the capturing
\* frame itself: the corners and ids that the detector produced in this call
\* for a chAruco board, the white sub-grid points followed by the black
\* sub-grid points for a DoubleAcirclesGrid, and the points the detector
\* produced in this call for the other grids; never those of an earlier frame.
C18_SampleIsThisFramesDetection ==
    (lastCall = "processFrame" /\ triggered) =>
        CASE mBoardType = "chAruco" ->
                /\ Last(allCharucoCorners) = lastDet.corners
                /\ Last(allCharucoIds) = lastDet.ids
          [] mBoardType = "DoubleAcirclesGrid" ->
                Last(imagePoints) = lastDet.points \o lastDet.bPoints
          [] OTHER ->
                Last(imagePoints) = lastDet.points

\* a second capture of a chAruco board, in a pose other than that of the first
C18_Witness ==
    /\ lastCall = "processFrame"
    /\ triggered
    /\ mBoardType = "chAruco"
    /\ Len(allCharucoCorners) = 2
    /\ allCharucoCorners[1] # allCharucoCorners[2]
    /\ allCharucoCorners[2] = lastDet.corners

\* C19: after every processFrame or resetState call imagePoints and
\* objectPoints have the same length, allCharucoCorners and allCharucoIds have
\* the same length, the number of samples appended equals the number of
\* captures triggered since construction, and the captured-frame count, which
\* resets lower while they leave the samples, is at most the number of samples.
C19_DatasetPairedAndCounted ==
    lastCall \in {"processFrame", "resetState"} =>
        /\ Len(imagePoints) = Len(objectPoints)
        /\ Len(allCharucoCorners) = Len(allCharucoIds)
        /\ Len(imagePoints) + Len(allCharucoCorners) = totalTriggers
        /\ mCapuredFrames <= Len(imagePoints) + Len(allCharucoCorners)

\* a capture, a reset and a second capture: two samples, a count of one
C19_Witness ==
    /\ lastCall = "processFrame"
    /\ triggered
    /\ totalTriggers = 2
    /\ mCapuredFrames = 1
    /\ Len(imagePoints) = 2
    /\ Len(objectPoints) = 2

\* C20: for every target >= 1, once every frame shows the board detected
\* with an unchanging anchor and resetState is no longer called, captures keep
\* occurring (the count of a processor that is not done grows) and isProcessed
\* becomes true; and at every step other than a resetState call or a change
\* of the target the captured-frame count does not decrease, so isProcessed,
\* once true, stays true.
C20_HeldBoardReachesTarget ==
    /\ (held # <<>>) ~> isProcessed
    /\ \A n \in 0..MaxTarget :
          (held # <<>> /\ ~isProcessed /\ mCapuredFrames = n) ~> (mCapuredFrames > n)
    /\ [][lastCall' \notin {"resetState", "configure"} =>
            /\ mCapuredFrames' >= mCapuredFrames
            /\ (isProcessed => isProcessed')]_vars

\* a target of three reached by a board held in a pose
C20_Witness ==
    /\ held = PoseB
    /\ mNeededFramesNum = 3
    /\ mCapuredFrames = 3
    /\ isProcessed
    /\ triggered

============================================================================
